---- MODULE Spec2Model ----
(***************************************************************************)
(* GemQuest API: the credential / token lifecycle of src/routes/authRoutes *)
(* and the role based authorization gate of src/plugins/authPlugin, with   *)
(* the routes that use it.  The repository (Prisma) is the shared state;   *)
(* every request handler is cut at the repository calls it awaits, so      *)
(* concurrent requests interleave between those calls.                     *)
(***************************************************************************)
EXTENDS Integers, Sequences, FiniteSets, Bags, TLC

VARIABLES
  users,        \* User table: sequence of rows, row i has id i (autoincrement)
  userRoles,    \* UserRole table: set of [userId, role, clientId]
  userGroups,   \* UserGroup table: set of [userId, groupId]
  groupRoles,   \* GroupRole table: set of [groupId, role, clientId]
  experiences,  \* Experience table: set of [id, clientId, name]
  now,          \* wall clock (new Date()), in hours
  nextToken,    \* next value crypto.randomBytes(32) yields (never repeats)
  sessions,     \* user ids for which server.jwt.sign produced a token
  reqs,         \* bag of /auth requests between two repository calls
  last,         \* the /auth response sent most recently
  uses,         \* per token value: the requests answered with success for it
  calls         \* the request to a protected route, in flight or answered

vars == <<users, userRoles, userGroups, groupRoles, experiences, now,
          nextToken, sessions, reqs, last, uses, calls>>

repoVars == <<userRoles, userGroups, groupRoles, experiences>>

-----------------------------------------------------------------------------
(* Bounds of the model *)

MaxTokens == 2
MaxTime == 25
MaxInFlight == 2
MaxGrants == 2

(* Program constants *)

ConfirmationTokenHours == 24
ResetTokenHours == 2
EarlierResetTokenHours == 1
InvitationTokenHours == 24

(* Input domains *)

Emails == {"a@x.com", "b@x.com"}
Usernames == {"alice", "bob"}
AuthEmails == {"a@x.com"}
AuthUsernames == {"alice"}
RegisterPasswords == {"pw"}
LoginPasswords == {"pw", "pw2"}
NewPasswords == {"pw2", ""}

Null == << >>
Some(x) == <<x>>

PresentedTokens == {Null} \cup {Some(t) : t \in 1..MaxTokens}
PresentedEmails == {Null} \cup {Some(e) : e \in Emails}

-----------------------------------------------------------------------------
(* Credential manager *)

\* bcrypt.hash(password, 10): one way; only bcrypt.compare relates it to the
\* plaintext
Hash(plain) == [bcrypt |-> TRUE, of |-> plain]

\* bcrypt.compare(password, user.password): false for a stored value that is
\* no bcrypt hash
Compare(plain, stored) == stored.bcrypt /\ stored.of = plain

\* addHours(hours): new Date() moved forward by hours
addHours(hours) == now + hours

-----------------------------------------------------------------------------
(* Repository queries *)

UserIds == 1..Len(users)

\* findUnique whose where clause is dropped: any row is found
FindByEmailNoFilter(email) == UserIds

\* prisma.user.findUnique({ where: { email } }): the ids found (none or one)
FindByEmail(email) == {i \in UserIds : users[i].email = email}

FindByUsername(username) == {i \in UserIds : users[i].username = username}

MinOf(S) == CHOOSE x \in S : \A y \in S : x <= y

\* NotExpired without the comparison against the clock
NotExpiredIgnoresClock(expiry) == expiry # Null

\* where: { confirmationTokenExpiry: { gte: new Date() } }; a null column
\* matches no comparison
NotExpired(expiry) == expiry # Null /\ expiry[1] >= now

\* prisma.user.findFirst({ where: { confirmationToken: token,
\*   confirmationTokenExpiry: { gte: new Date() } } })
FindByConfirmationToken(token) ==
  {i \in UserIds : users[i].confirmationToken = token
                   /\ NotExpired(users[i].confirmationTokenExpiry)}

\* prisma.user.findFirst({ where: { resetToken: token,
\*   resetTokenExpiry: { gte: new Date() } } })
FindByResetToken(token) ==
  {i \in UserIds : users[i].resetToken = token
                   /\ NotExpired(users[i].resetTokenExpiry)}

-----------------------------------------------------------------------------
(* Role based access control: src/plugins/authPlugin.ts *)

RoleNames == {"Super Administrator", "Client Administrator", "Viewer", "End User"}
Clients == {1, 2}
Groups == {"g1"}
Scopes == {Null} \cup {Some(c) : c \in Clients}

\* rolePermissions of src/config/permission.ts
rolePermissions(role) ==
  CASE role = "Super Administrator" -> {"create", "read", "update", "delete", "manage"}
    [] role = "Client Administrator" -> {"create", "read", "update", "delete"}
    [] role = "Staff Member" -> {"read", "update"}
    [] role = "End User" -> {"read", "execute"}
    [] OTHER -> {}

\* A path parameter is a string: a sequence of characters
Digits == <<"0", "1", "2", "3", "4", "5", "6", "7", "8", "9">>
IsDigit(ch) == \E d \in 1..10 : Digits[d] = ch
DigitValue(ch) == (CHOOSE d \in 1..10 : Digits[d] = ch) - 1

NaN == <<"NaN", "NaN">>

RECURSIVE LeadingDigits(_, _)
LeadingDigits(str, acc) ==
  IF str = << >> \/ ~IsDigit(Head(str)) THEN acc
  ELSE LeadingDigits(Tail(str), acc * 10 + DigitValue(Head(str)))

\* parseInt(str, 10): the value of the leading decimal digits, NaN when the
\* string is undefined or starts with no digit
parseInt(str) ==
  IF str = << >> \/ ~IsDigit(Head(str)) THEN NaN
  ELSE Some(LeadingDigits(str, 0))

\* Policies: the PermissionOptions a route hands to server.authorize
Options(roles, permissions, clientParam, clientId) ==
  [roles |-> roles, permissions |-> permissions, clientParam |-> clientParam,
   clientId |-> clientId]

\* authorize, lines 34-41: the tenant scope of the check
ScopeOf(options, param) ==
  IF options.clientParam # Null THEN parseInt(param)
  ELSE IF options.clientId # Null THEN options.clientId
  ELSE Null

\* The where clause without { clientId: null }
InScopeTenantOnly(row, clientId) == row.clientId = clientId

\* The where clause without the tenant
InScopeAnyTenant(row, clientId) == TRUE

\* where: { OR: [{ clientId }, { clientId: null }] }
InScope(row, clientId) == row.clientId = clientId \/ row.clientId = Null

\* uniqueRoles without the userId filter of userRole.findMany
EffectiveRolesAnyUser(userId, clientId) ==
  LET direct == {ur \in userRoles : InScope(ur, clientId)}
      groupIds == {ug.groupId : ug \in {x \in userGroups : x.userId = userId}}
      viaGroup == {gr \in groupRoles : gr.groupId \in groupIds /\ InScope(gr, clientId)}
  IN {ur.role : ur \in direct} \cup {gr.role : gr \in viaGroup}

\* uniqueRoles without the groupId filter of groupRole.findMany
EffectiveRolesAllGroups(userId, clientId) ==
  LET direct == {ur \in userRoles : ur.userId = userId /\ InScope(ur, clientId)}
      viaGroup == {gr \in groupRoles : InScope(gr, clientId)}
  IN {ur.role : ur \in direct} \cup {gr.role : gr \in viaGroup}

\* uniqueRoles without the roles of the groups
EffectiveRolesDirectOnly(userId, clientId) ==
  {ur.role : ur \in {x \in userRoles : x.userId = userId /\ InScope(x, clientId)}}

\* authorize, lines 43-85: uniqueRoles
EffectiveRoles(userId, clientId) ==
  LET direct == {ur \in userRoles : ur.userId = userId /\ InScope(ur, clientId)}
      groupIds == {ug.groupId : ug \in {x \in userGroups : x.userId = userId}}
      viaGroup == {gr \in groupRoles : gr.groupId \in groupIds /\ InScope(gr, clientId)}
  IN {ur.role : ur \in direct} \cup {gr.role : gr \in viaGroup}

\* The roles check as ALL-of
HasAllRoles(uniqueRoles, roles) == roles \subseteq uniqueRoles

\* authorize, lines 87-96: the roles check; options.permissions is not read
HasRole(uniqueRoles, roles) == uniqueRoles \cap roles # {}

Forbidden(roles) == [error |-> "Forbidden - required roles", roles |-> roles]
NoBody == [error |-> "", roles |-> {}]

\* authorize reusing, inside a handler, the roles its preValidation run found
AuthorizeCached(options, userId, param) ==
  LET clientId == ScopeOf(options, param)
      uniqueRoles == IF calls.pc = "authorize2" /\ calls.options # Null
                       THEN calls.roles
                       ELSE EffectiveRoles(userId, clientId)
  IN IF options.roles # Null /\ ~HasRole(uniqueRoles, options.roles[1])
       THEN [status |-> 403, body |-> Forbidden(options.roles[1]),
             roles |-> uniqueRoles, scope |-> clientId]
       ELSE [status |-> 0, body |-> NoBody, roles |-> uniqueRoles,
             scope |-> clientId]

\* authorize whose 403 body also names the roles the caller holds
AuthorizeTellsRoles(options, userId, param) ==
  LET clientId == ScopeOf(options, param)
      uniqueRoles == EffectiveRoles(userId, clientId)
  IN IF options.roles # Null /\ ~HasRole(uniqueRoles, options.roles[1])
       THEN [status |-> 403,
             body |-> [error |-> "Forbidden - required roles",
                       roles |-> options.roles[1], you |-> uniqueRoles],
             roles |-> uniqueRoles, scope |-> clientId]
       ELSE [status |-> 0, body |-> NoBody, roles |-> uniqueRoles,
             scope |-> clientId]

\* The outcome of one run of the function authorize(options) returns:
\* status 0 when it sent no reply
Authorize(options, userId, param) ==
  LET clientId == ScopeOf(options, param)
      uniqueRoles == EffectiveRoles(userId, clientId)
  IN IF options.roles # Null /\ ~HasRole(uniqueRoles, options.roles[1])
       THEN [status |-> 403, body |-> Forbidden(options.roles[1]),
             roles |-> uniqueRoles, scope |-> clientId]
       ELSE [status |-> 0, body |-> NoBody, roles |-> uniqueRoles,
             scope |-> clientId]

\* A NaN tenant reaches Prisma as clientId: NaN, which the client either
\* refuses (the catch block sends the error) or passes on as null
ScopeChoices(options, param) ==
  IF ScopeOf(options, param) = NaN THEN {"refused", "asNull"} ELSE {"asIs"}

AdminRoles == {"Client Administrator", "Super Administrator"}

RouteOptions(route) ==
  CASE route = "GET /clients/:id" ->
         Options(Some({"Super Administrator", "Client Administrator"}), Null, Some("id"), Null)
    [] route = "GET /collaborators" -> Options(Some(AdminRoles), Null, Null, Null)
    [] route = "PUT /experiences/:id" -> Options(Some(AdminRoles), Null, Null, Null)
    [] OTHER -> Null

Routes == {"GET /clients/:id", "GET /collaborators", "PUT /experiences/:id",
           "DELETE /experiences/:id"}

\* Policies a route can hand to server.authorize
Policies ==
  {Options(Null, Null, Null, Null),
   Options(Some({}), Null, Null, Null),
   Options(Some({"Viewer"}), Null, Some("id"), Null),
   Options(Some({"Viewer", "End User"}), Null, Null, Null),
   Options(Null, Some({"read"}), Null, Null),
   Options(Null, Some({"read", "update"}), Some("id"), Null),
   Options(Some({"End User"}), Some({"read", "update"}), Null, Null)}

Params == {<<"1">>, <<"2">>, <<"x">>}

\* User 1 is the seeded administrator, user 2 a registered member
Admin == 1
Member == 2
Principals == {Admin, Member}
BadCredential == 0

NoCall == [route |-> "none", options |-> Null, pc |-> "idle", cred |-> 0,
           param |-> << >>, status |-> 0, body |-> NoBody, roles |-> {},
           scope |-> Null, found |-> Null, effect |-> "none"]

CallReply(c, status, body) == [c EXCEPT !.pc = "done", !.status = status, !.body = body]

authVars == <<users, now, nextToken, sessions, reqs, last, uses>>

\* authenticate whose failure is not answered
AuthenticatedAlways(cred) == TRUE

\* server.authenticate: request.jwtVerify() accepts the tokens the server signed
Authenticated(cred) == cred \in sessions

\* The preValidation hooks of a route, in order: server.authenticate, then
\* server.authorize(options) when the route has one; a hook that sent a
\* reply ends the request
Hooks(route, options, cred, param, choice) ==
  LET c == [NoCall EXCEPT !.route = route, !.options = options,
                          !.cred = cred, !.param = param]
      asNull == IF options = Null THEN Null
                ELSE Options(options.roles, options.permissions, Null, Null)
      a == Authorize(IF choice = "asNull" THEN asNull ELSE options, cred, param)
  IN IF ~Authenticated(cred)
       THEN CallReply(c, 401, [error |-> "Unauthorized", roles |-> {}])
     ELSE IF options = Null THEN [c EXCEPT !.pc = "handler"]
     ELSE IF choice = "refused"
       THEN CallReply([c EXCEPT !.scope = NaN], 500,
                      [error |-> "PrismaClientValidationError", roles |-> {}])
     ELSE IF a.status # 0
       THEN CallReply([c EXCEPT !.roles = a.roles, !.scope = a.scope],
                      a.status, a.body)
     ELSE [c EXCEPT !.pc = "handler", !.roles = a.roles, !.scope = a.scope]

HookChoices(options, cred, param) ==
  IF Authenticated(cred) /\ options # Null
    THEN ScopeChoices(options, param) ELSE {"asIs"}

\* A request arrives at a route and runs its preValidation hooks
PreValidation(route, options, cred, param, choice) ==
  /\ calls.pc \in {"idle", "done"}
  /\ choice \in HookChoices(options, cred, param)
  /\ calls' = Hooks(route, options, cred, param, choice)
  /\ UNCHANGED <<authVars, repoVars>>

OkBody == [error |-> "", roles |-> {}]

\* GET /clients/:id
GetClient ==
  /\ calls.pc = "handler" /\ calls.route = "GET /clients/:id"
  /\ LET id == parseInt(calls.param)
     IN calls' = IF id # NaN /\ id[1] \in Clients
                   THEN CallReply(calls, 200, OkBody)
                   ELSE CallReply(calls, 404, [error |-> "Client not found", roles |-> {}])
  /\ UNCHANGED <<authVars, repoVars>>

\* GET /collaborators: no write
GetCollaborators ==
  /\ calls.pc = "handler" /\ calls.route = "GET /collaborators"
  /\ calls' = CallReply(calls, 200, OkBody)
  /\ UNCHANGED <<authVars, repoVars>>

\* A route that declares the policy options and whose handler only answers
Probe(options, cred, param, choice) ==
  /\ calls.pc \in {"idle", "done"}
  /\ choice \in HookChoices(options, cred, param)
  /\ LET c == Hooks("probe", options, cred, param, choice)
     IN calls' = IF c.pc = "handler" THEN CallReply(c, 200, OkBody) ELSE c
  /\ UNCHANGED <<authVars, repoVars>>

\* PUT and DELETE /experiences/:id: prisma.experience.findUnique
ExperienceFind ==
  /\ calls.pc = "handler"
  /\ calls.route \in {"PUT /experiences/:id", "DELETE /experiences/:id"}
  /\ LET id == parseInt(calls.param)
         rows == IF id = NaN THEN {} ELSE {e \in experiences : e.id = id[1]}
     IN calls' = IF rows = {}
                   THEN CallReply(calls, 404, [error |-> "Experience not found", roles |-> {}])
                   ELSE [calls EXCEPT !.pc = "authorize2",
                                      !.found = Some((CHOOSE e \in rows : TRUE).clientId)]
  /\ UNCHANGED <<authVars, repoVars>>

\* PUT and DELETE /experiences/:id: await server.authorize({ roles,
\* clientId: existingExperience.clientId })(request, reply); the handler
\* does not look at the outcome
ExperienceAuthorize ==
  /\ calls.pc = "authorize2"
  /\ LET a == Authorize(Options(Some(AdminRoles), Null, Null, calls.found),
                        calls.cred, calls.param)
     IN calls' = [calls EXCEPT !.pc = "write", !.status = a.status,
                               !.body = a.body, !.roles = a.roles,
                               !.scope = a.scope]
  /\ UNCHANGED <<authVars, repoVars>>

\* PUT /experiences/:id: prisma.experience.update, DELETE: .delete; a
\* reply that was sent already stays the client's answer
ExperienceWrite ==
  /\ calls.pc = "write"
  /\ LET id == parseInt(calls.param)[1]
         put == calls.route = "PUT /experiences/:id"
     IN /\ experiences' =
             IF put
               THEN {IF e.id = id THEN [e EXCEPT !.name = "renamed"] ELSE e : e \in experiences}
               ELSE {e \in experiences : e.id # id}
        /\ calls' = [calls EXCEPT !.pc = "done",
                                  !.effect = IF put THEN "update" ELSE "delete",
                                  !.status = IF calls.status # 0 THEN calls.status
                                             ELSE IF put THEN 200 ELSE 204]
  /\ UNCHANGED <<authVars, userRoles, userGroups, groupRoles>>

\* prisma/seed.ts: the initial administrator holds the global role
SeedRoles == {[userId |-> Admin, role |-> "Super Administrator", clientId |-> Null]}

Grants == Cardinality(userRoles \ SeedRoles) + Cardinality(groupRoles)

\* The reply of a finished request has been delivered when an
\* administrator changes an assignment; a request in flight stays in flight
Delivered == calls' = IF calls.pc = "done" THEN NoCall ELSE calls

\* prisma.userRole.create: the unique index on (userId, roleId, clientId)
GrantUserRole(userId, role, clientId) ==
  /\ Grants < MaxGrants
  /\ userRoles' = userRoles \cup {[userId |-> userId, role |-> role, clientId |-> clientId]}
  /\ UNCHANGED <<authVars, userGroups, groupRoles, experiences>> /\ Delivered

RevokeUserRole(row) ==
  /\ row \in userRoles \ SeedRoles
  /\ userRoles' = userRoles \ {row}
  /\ UNCHANGED <<authVars, userGroups, groupRoles, experiences>> /\ Delivered

JoinGroup(userId, groupId) ==
  /\ userGroups' = userGroups \cup {[userId |-> userId, groupId |-> groupId]}
  /\ UNCHANGED <<authVars, userRoles, groupRoles, experiences>> /\ Delivered

LeaveGroup(row) ==
  /\ row \in userGroups
  /\ userGroups' = userGroups \ {row}
  /\ UNCHANGED <<authVars, userRoles, groupRoles, experiences>> /\ Delivered

GrantGroupRole(groupId, role, clientId) ==
  /\ Grants < MaxGrants
  /\ groupRoles' = groupRoles \cup {[groupId |-> groupId, role |-> role, clientId |-> clientId]}
  /\ UNCHANGED <<authVars, userRoles, userGroups, experiences>> /\ Delivered

RevokeGroupRole(row) ==
  /\ row \in groupRoles
  /\ groupRoles' = groupRoles \ {row}
  /\ UNCHANGED <<authVars, userRoles, userGroups, experiences>> /\ Delivered

-----------------------------------------------------------------------------
(* Requests to the /auth routes *)

\* The locals of a handler that is between two repository calls
Req(op, pc, email, username, password, token, uid) ==
  [op |-> op, pc |-> pc, email |-> email, username |-> username,
   password |-> password, token |-> token, uid |-> uid]

\* A response: the handler, the inputs that decided it, the row it acted
\* on, the status and message sent, and whether the handler sent an email
Resp(op, email, password, token, uid, status, msg, mailed) ==
  [op |-> op, email |-> email, password |-> password, token |-> token,
   uid |-> uid, status |-> status, msg |-> msg, mailed |-> mailed]

NoResp == Resp("none", Null, "", Null, 0, 0, "", FALSE)

InFlight == BagToSet(reqs)
CanAccept == BagCardinality(reqs) < MaxInFlight
Suspend(q) == reqs' = reqs (+) SetToBag({q})
Resume(q, q2) == reqs' = (reqs (-) SetToBag({q})) (+) SetToBag({q2})
Finish(q) == reqs' = reqs (-) SetToBag({q})

\* RegisterFind without the lookup of the email
RegisterFindSkipsLookup(email, username, password) ==
  /\ CanAccept
  /\ Suspend(Req("register", "create", Some(email), username, password, Null, 0))
  /\ UNCHANGED last
  /\ UNCHANGED <<users, repoVars, now, nextToken, sessions, uses, calls>>

\* POST /register, up to the first repository call: findUnique by email
RegisterFind(email, username, password) ==
  /\ IF FindByEmail(email) # {}
       THEN /\ last' = Resp("register", Some(email), "", Null, 0,
                            400, "User already exists", FALSE)
            /\ UNCHANGED reqs
       ELSE /\ CanAccept
            /\ Suspend(Req("register", "create", Some(email), username, password, Null, 0))
            /\ UNCHANGED last
  /\ UNCHANGED <<users, repoVars, now, nextToken, sessions, uses, calls>>

\* RegisterCreate on a table without unique indexes
RegisterCreateNoUniqueIndex(q) ==
  /\ q \in InFlight /\ q.op = "register" /\ q.pc = "create"
  /\ nextToken <= MaxTokens
  /\ users' = Append(users,
       [email |-> q.email[1], username |-> q.username,
        password |-> Hash(q.password), emailConfirmed |-> FALSE,
        confirmationToken |-> Some(nextToken),
        confirmationTokenExpiry |-> Some(addHours(ConfirmationTokenHours)),
        resetToken |-> Null, resetTokenExpiry |-> Null])
  /\ nextToken' = nextToken + 1
  /\ Resume(q, Req("register", "role", q.email, "", "", Null, Len(users) + 1))
  /\ UNCHANGED last
  /\ UNCHANGED <<repoVars, now, sessions, uses, calls>>

\* POST /register: prisma.user.create; the unique indexes on User.email and
\* User.username make the create throw, which the handler does not catch
RegisterCreate(q) ==
  /\ q \in InFlight /\ q.op = "register" /\ q.pc = "create"
  /\ IF FindByEmail(q.email[1]) # {} \/ FindByUsername(q.username) # {}
       THEN /\ Finish(q)
            /\ last' = Resp("register", q.email, "", Null, 0,
                            500, "Internal Server Error", FALSE)
            /\ UNCHANGED <<users, nextToken>>
       ELSE /\ nextToken <= MaxTokens
            /\ users' = Append(users,
                 [email |-> q.email[1], username |-> q.username,
                  password |-> Hash(q.password), emailConfirmed |-> FALSE,
                  confirmationToken |-> Some(nextToken),
                  confirmationTokenExpiry |-> Some(addHours(ConfirmationTokenHours)),
                  resetToken |-> Null, resetTokenExpiry |-> Null])
            /\ nextToken' = nextToken + 1
            /\ Resume(q, Req("register", "role", q.email, "", "", Null, Len(users) + 1))
            /\ UNCHANGED last
  /\ UNCHANGED <<repoVars, now, sessions, uses, calls>>

\* RegisterFinish that deletes the new row when the confirmation email fails
RegisterFinishDeletesOnFailure(q, mailOk) ==
  /\ q \in InFlight /\ q.op = "register" /\ q.pc = "role"
  /\ userRoles' = IF mailOk
       THEN userRoles \cup {[userId |-> q.uid, role |-> "Collaborator", clientId |-> Null]}
       ELSE userRoles
  /\ users' = IF mailOk THEN users
       ELSE SubSeq(users, 1, q.uid - 1) \o SubSeq(users, q.uid + 1, Len(users))
  /\ Finish(q)
  /\ last' = IF mailOk
       THEN Resp("register", q.email, "", Null, q.uid, 201,
                 "User registered successfully. Please check your email to confirm your account.",
                 TRUE)
       ELSE Resp("register", q.email, "", Null, q.uid, 500,
                 "Failed to send confirmation email", FALSE)
  /\ UNCHANGED <<userGroups, groupRoles, experiences, now, nextToken,
                 sessions, uses, calls>>

\* POST /register: the global 'Collaborator' UserRole, the confirmation
\* email and the reply
RegisterFinish(q, mailOk) ==
  /\ q \in InFlight /\ q.op = "register" /\ q.pc = "role"
  /\ userRoles' = userRoles \cup
       {[userId |-> q.uid, role |-> "Collaborator", clientId |-> Null]}
  /\ Finish(q)
  /\ last' = IF mailOk
       THEN Resp("register", q.email, "", Null, q.uid, 201,
                 "User registered successfully. Please check your email to confirm your account.",
                 TRUE)
       ELSE Resp("register", q.email, "", Null, q.uid, 500,
                 "Failed to send confirmation email", FALSE)
  /\ UNCHANGED <<users, userGroups, groupRoles, experiences, now, nextToken,
                 sessions, uses, calls>>

\* ConfirmFind without the test for a missing token
ConfirmFindNoRequiredCheck(token, required, invalid) ==
  /\ LET found == FindByConfirmationToken(token)
     IN IF found = {}
          THEN /\ last' = Resp("confirmEmail", Null, "", token, 0, 400, invalid, FALSE)
               /\ UNCHANGED reqs
        ELSE /\ CanAccept
             /\ Suspend(Req("confirmEmail", "update", Null, "", "", token, MinOf(found)))
             /\ UNCHANGED last
  /\ UNCHANGED <<users, repoVars, now, nextToken, sessions, uses, calls>>

\* GET /confirm-email, up to the findFirst, with the two error messages of
\* the version at hand
ConfirmFind(token, required, invalid) ==
  /\ LET found == FindByConfirmationToken(token)
     IN IF token = Null
          THEN /\ last' = Resp("confirmEmail", Null, "", token, 0, 400, required, FALSE)
               /\ UNCHANGED reqs
        ELSE IF found = {}
          THEN /\ last' = Resp("confirmEmail", Null, "", token, 0, 400, invalid, FALSE)
               /\ UNCHANGED reqs
        ELSE /\ CanAccept
             /\ Suspend(Req("confirmEmail", "update", Null, "", "", token, MinOf(found)))
             /\ UNCHANGED last
  /\ UNCHANGED <<users, repoVars, now, nextToken, sessions, uses, calls>>

\* GET /confirm-email, up to the findFirst
ConfirmEmailFind(token) ==
  ConfirmFind(token, "Token is required.", "Invalid or expired token.")

\* A request answered with success for the token it presented
Used(token) == uses' = [uses EXCEPT ![token[1]] = @ + 1]

\* ConfirmUpdate that clears the token and leaves the flag as it was
ConfirmUpdateLeavesUnconfirmed(q, msg) ==
  /\ q \in InFlight /\ q.op = "confirmEmail" /\ q.pc = "update"
  /\ users' = [users EXCEPT ![q.uid] =
       [@ EXCEPT !.confirmationToken = Null, !.confirmationTokenExpiry = Null]]
  /\ Finish(q)
  /\ last' = Resp("confirmEmail", Null, "", q.token, q.uid, 200, msg, FALSE)
  /\ Used(q.token)
  /\ UNCHANGED <<repoVars, now, nextToken, sessions, calls>>

\* ConfirmUpdate that sets the flag and leaves the token in place
ConfirmUpdateKeepsToken(q, msg) ==
  /\ q \in InFlight /\ q.op = "confirmEmail" /\ q.pc = "update"
  /\ users' = [users EXCEPT ![q.uid] = [@ EXCEPT !.emailConfirmed = TRUE]]
  /\ Finish(q)
  /\ last' = Resp("confirmEmail", Null, "", q.token, q.uid, 200, msg, FALSE)
  /\ Used(q.token)
  /\ UNCHANGED <<repoVars, now, nextToken, sessions, calls>>

\* prisma.user.update({ where: { id: user.id }, data: { emailConfirmed:
\*   true, confirmationToken: null, confirmationTokenExpiry: null } })
ConfirmUpdate(q, msg) ==
  /\ q \in InFlight /\ q.op = "confirmEmail" /\ q.pc = "update"
  /\ users' = [users EXCEPT ![q.uid] =
       [@ EXCEPT !.emailConfirmed = TRUE, !.confirmationToken = Null,
                 !.confirmationTokenExpiry = Null]]
  /\ Finish(q)
  /\ last' = Resp("confirmEmail", Null, "", q.token, q.uid, 200, msg, FALSE)
  /\ Used(q.token)
  /\ UNCHANGED <<repoVars, now, nextToken, sessions, calls>>

\* GET /confirm-email: the update and the reply
ConfirmEmailUpdate(q) == ConfirmUpdate(q, "Email confirmed successfully.")

\* GET /confirm-email of the version of authRoutes that has POST /set-password
EarlierConfirmEmailFind(token) ==
  ConfirmFind(token, "Token is required", "Invalid or expired confirmation token")

EarlierConfirmEmailUpdate(q) == ConfirmUpdate(q, "Email confirmed successfully")

\* LoginReply with an answer of its own for an email that is not stored
LoginReplyTellsUnknownEmail(email, password) ==
  LET found == FindByEmail(email)
      uid == MinOf(found)
  IN IF found = {}
       THEN Resp("login", Some(email), password, Null, 0,
                 404, "User not found", FALSE)
     ELSE IF ~users[uid].emailConfirmed
       THEN Resp("login", Some(email), password, Null, uid,
                 401, "Please confirm your email before logging in", FALSE)
     ELSE IF ~Compare(password, users[uid].password)
       THEN Resp("login", Some(email), password, Null, uid,
                 401, "Invalid email or password", FALSE)
     ELSE Resp("login", Some(email), password, Null, uid, 200, "token", FALSE)

\* LoginReply without the emailConfirmed check
LoginReplySkipsConfirmation(email, password) ==
  LET found == FindByEmail(email)
      uid == MinOf(found)
  IN IF found = {} \/ ~Compare(password, users[uid].password)
       THEN Resp("login", Some(email), password, Null, 0,
                 401, "Invalid email or password", FALSE)
     ELSE Resp("login", Some(email), password, Null, uid, 200, "token", FALSE)

\* LoginReply that verifies the password before the emailConfirmed flag
LoginReplyChecksPasswordFirst(email, password) ==
  LET found == FindByEmail(email)
      uid == MinOf(found)
  IN IF found = {} \/ ~Compare(password, users[uid].password)
       THEN Resp("login", Some(email), password, Null, 0,
                 401, "Invalid email or password", FALSE)
     ELSE IF ~users[uid].emailConfirmed
       THEN Resp("login", Some(email), password, Null, uid,
                 401, "Please confirm your email before logging in", FALSE)
     ELSE Resp("login", Some(email), password, Null, uid, 200, "token", FALSE)

\* POST /login: the reply; findUnique by email, the emailConfirmed flag,
\* bcrypt.compare, server.jwt.sign
LoginReply(email, password) ==
  LET found == FindByEmail(email)
      uid == MinOf(found)
  IN IF found = {}
       THEN Resp("login", Some(email), password, Null, 0,
                 401, "Invalid email or password", FALSE)
     ELSE IF ~users[uid].emailConfirmed
       THEN Resp("login", Some(email), password, Null, uid,
                 401, "Please confirm your email before logging in", FALSE)
     ELSE IF ~Compare(password, users[uid].password)
       THEN Resp("login", Some(email), password, Null, uid,
                 401, "Invalid email or password", FALSE)
     ELSE Resp("login", Some(email), password, Null, uid, 200, "token", FALSE)

\* POST /login
Login(email, password) ==
  /\ last' = LoginReply(email, password)
  /\ sessions' = IF last'.status = 200 THEN sessions \cup {last'.uid} ELSE sessions
  /\ UNCHANGED <<users, repoVars, now, nextToken, reqs, uses, calls>>

\* ResetRequest that stores a token only in a row that holds none
ResetRequestKeepsFirstToken(email, mailOk, hours, required, sent, failed) ==
  /\ LET found == IF email = Null THEN {} ELSE FindByEmail(email[1])
         uid == MinOf(found)
     IN IF email = Null
          THEN /\ last' = Resp("requestPasswordReset", email, "", Null, 0,
                               400, required, FALSE)
               /\ UNCHANGED <<users, nextToken>>
        ELSE IF found = {}
          THEN /\ last' = Resp("requestPasswordReset", email, "", Null, 0, 200,
                               sent, FALSE)
               /\ UNCHANGED <<users, nextToken>>
        ELSE /\ nextToken <= MaxTokens
             /\ users' = IF users[uid].resetToken # Null THEN users
                  ELSE [users EXCEPT ![uid] =
                         [@ EXCEPT !.resetToken = Some(nextToken),
                                   !.resetTokenExpiry = Some(addHours(hours))]]
             /\ nextToken' = nextToken + 1
             /\ last' = IF mailOk
                  THEN Resp("requestPasswordReset", email, "", Null, uid, 200,
                            sent, TRUE)
                  ELSE Resp("requestPasswordReset", email, "", Null, uid, 500,
                            failed, FALSE)
  /\ UNCHANGED <<repoVars, now, sessions, reqs, uses, calls>>

\* POST /request-password-reset: findUnique, update, the reset email,
\* with the lifetime and the messages of the version at hand; a failure of
\* sendEmail is caught and answered 500
ResetRequest(email, mailOk, hours, required, sent, failed) ==
  /\ LET found == IF email = Null THEN {} ELSE FindByEmail(email[1])
         uid == MinOf(found)
     IN IF email = Null
          THEN /\ last' = Resp("requestPasswordReset", email, "", Null, 0,
                               400, required, FALSE)
               /\ UNCHANGED <<users, nextToken>>
        ELSE IF found = {}
          THEN /\ last' = Resp("requestPasswordReset", email, "", Null, 0, 200,
                               sent, FALSE)
               /\ UNCHANGED <<users, nextToken>>
        ELSE /\ nextToken <= MaxTokens
             /\ users' = [users EXCEPT ![uid] =
                  [@ EXCEPT !.resetToken = Some(nextToken),
                            !.resetTokenExpiry = Some(addHours(hours))]]
             /\ nextToken' = nextToken + 1
             /\ last' = IF mailOk
                  THEN Resp("requestPasswordReset", email, "", Null, uid, 200,
                            sent, TRUE)
                  ELSE Resp("requestPasswordReset", email, "", Null, uid, 500,
                            failed, FALSE)
  /\ UNCHANGED <<repoVars, now, sessions, reqs, uses, calls>>

\* POST /request-password-reset
RequestPasswordReset(email, mailOk) ==
  ResetRequest(email, mailOk, ResetTokenHours, "Email is required.",
    "If an account with that email exists, a password reset link has been sent.",
    "An error occurred while processing your request.")

\* POST /request-password-reset of the version of authRoutes that has
\* POST /set-password
EarlierRequestPasswordReset(email, mailOk) ==
  ResetRequest(email, mailOk, EarlierResetTokenHours, "Email is required",
    "If that email is registered, you will receive a password reset email shortly.",
    "Failed to send password reset email")

\* PasswordFind that looks the row up by token alone and checks the expiry
\* afterwards, with an answer of its own
PasswordFindTellsExpired(op, token, newPassword, required, invalid) ==
  /\ LET byToken == {i \in UserIds : users[i].resetToken = token}
         found == FindByResetToken(token)
     IN IF token = Null \/ newPassword = ""
          THEN /\ last' = Resp(op, Null, newPassword, token, 0, 400, required, FALSE)
               /\ UNCHANGED reqs
        ELSE IF byToken = {}
          THEN /\ last' = Resp(op, Null, "", token, 0, 400, invalid, FALSE)
               /\ UNCHANGED reqs
        ELSE IF found = {}
          THEN /\ last' = Resp(op, Null, "", token, 0, 400, "Token has expired", FALSE)
               /\ UNCHANGED reqs
        ELSE /\ CanAccept
             /\ Suspend(Req(op, "update", Null, "", newPassword, token, MinOf(found)))
             /\ UNCHANGED last
  /\ UNCHANGED <<users, repoVars, now, nextToken, sessions, uses, calls>>

\* POST /reset-password and POST /set-password, up to the findFirst
PasswordFind(op, token, newPassword, required, invalid) ==
  /\ LET found == FindByResetToken(token)
     IN IF token = Null \/ newPassword = ""
          THEN /\ last' = Resp(op, Null, newPassword, token, 0, 400, required, FALSE)
               /\ UNCHANGED reqs
        ELSE IF found = {}
          THEN /\ last' = Resp(op, Null, "", token, 0, 400, invalid, FALSE)
               /\ UNCHANGED reqs
        ELSE /\ CanAccept
             /\ Suspend(Req(op, "update", Null, "", newPassword, token, MinOf(found)))
             /\ UNCHANGED last
  /\ UNCHANGED <<users, repoVars, now, nextToken, sessions, uses, calls>>

\* PasswordUpdate that also marks the email as confirmed
PasswordUpdateConfirmsEmail(q) ==
  users' = [users EXCEPT ![q.uid] =
    [@ EXCEPT !.password = Hash(q.password), !.resetToken = Null,
              !.resetTokenExpiry = Null, !.emailConfirmed = TRUE]]

\* PasswordUpdate that leaves the reset token in place
PasswordUpdateKeepsToken(q) ==
  users' = [users EXCEPT ![q.uid] = [@ EXCEPT !.password = Hash(q.password)]]

\* prisma.user.update({ where: { id: user.id }, data: { password,
\*   resetToken: null, resetTokenExpiry: null } })
PasswordUpdate(q) ==
  users' = [users EXCEPT ![q.uid] =
    [@ EXCEPT !.password = Hash(q.password), !.resetToken = Null,
              !.resetTokenExpiry = Null]]

\* POST /reset-password
ResetPasswordFind(token, newPassword) ==
  PasswordFind("resetPassword", token, newPassword,
               "Token and new password are required.",
               "Invalid or expired reset token.")

ResetPasswordUpdate(q) ==
  /\ q \in InFlight /\ q.op = "resetPassword" /\ q.pc = "update"
  /\ PasswordUpdate(q)
  /\ Finish(q)
  /\ last' = Resp("resetPassword", Null, "", q.token, q.uid, 200,
                  "Password has been reset successfully.", FALSE)
  /\ Used(q.token)
  /\ UNCHANGED <<repoVars, now, nextToken, sessions, calls>>

\* POST /set-password
SetPasswordFind(token, newPassword) ==
  PasswordFind("setPassword", token, newPassword,
               "Token and new password are required",
               "Invalid or expired reset token")

\* SetPasswordUpdate that undoes the update when the notification email
\* fails, and answers with an error
SetPasswordUpdateRollsBack(q, mailOk) ==
  /\ q \in InFlight /\ q.op = "setPassword" /\ q.pc = "update"
  /\ Finish(q)
  /\ IF mailOk
       THEN /\ PasswordUpdate(q)
            /\ last' = Resp("setPassword", Null, "", q.token, q.uid, 200,
                            "Password has been reset successfully", TRUE)
            /\ Used(q.token)
       ELSE /\ last' = Resp("setPassword", Null, "", q.token, q.uid, 500,
                            "Failed to send confirmation email", FALSE)
            /\ UNCHANGED <<users, uses>>
  /\ UNCHANGED <<repoVars, now, nextToken, sessions, calls>>

\* POST /set-password: the update, then the notification email whose
\* failure is logged and ignored
SetPasswordUpdate(q, mailOk) ==
  /\ q \in InFlight /\ q.op = "setPassword" /\ q.pc = "update"
  /\ PasswordUpdate(q)
  /\ Finish(q)
  /\ last' = Resp("setPassword", Null, "", q.token, q.uid, 200,
                  "Password has been reset successfully", mailOk)
  /\ Used(q.token)
  /\ UNCHANGED <<repoVars, now, nextToken, sessions, calls>>

\* Stored expiry instants
Expiries ==
  {users[i].confirmationTokenExpiry[1] :
     i \in {j \in UserIds : users[j].confirmationTokenExpiry # Null}}
  \cup {users[i].resetTokenExpiry[1] :
     i \in {j \in UserIds : users[j].resetTokenExpiry # Null}}

\* Time passes, up to an expiry instant or just beyond it
Tick ==
  /\ \E e \in Expiries : \E t \in {e, e + 1} :
       /\ now < t /\ t <= MaxTime
       /\ now' = t
  /\ UNCHANGED <<users, repoVars, nextToken, sessions, reqs, last, uses, calls>>

InitAuth ==
  /\ users = << >>
  /\ userRoles = {} /\ userGroups = {} /\ groupRoles = {} /\ experiences = {}
  /\ now = 0
  /\ nextToken = 1
  /\ sessions = {}
  /\ reqs = EmptyBag
  /\ last = NoResp
  /\ uses = [t \in 1..MaxTokens |-> 0]
  /\ calls = NoCall

NextAuth ==
  \/ \E e \in AuthEmails, u \in AuthUsernames, p \in RegisterPasswords : RegisterFind(e, u, p)
  \/ \E q \in InFlight : RegisterCreate(q)
  \/ \E q \in InFlight, ok \in BOOLEAN : RegisterFinish(q, ok)
  \/ \E t \in PresentedTokens : ConfirmEmailFind(t)
  \/ \E q \in InFlight : ConfirmEmailUpdate(q)
  \/ \E e \in Emails, p \in LoginPasswords : Login(e, p)
  \/ \E e \in PresentedEmails, ok \in BOOLEAN : RequestPasswordReset(e, ok)
  \/ \E t \in PresentedTokens, p \in NewPasswords : ResetPasswordFind(t, p)
  \/ \E q \in InFlight : ResetPasswordUpdate(q)
  \/ Tick

SpecAuth == InitAuth /\ [][NextAuth]_vars

\* The version of authRoutes with POST /set-password: register,
\* confirm-email, request-password-reset and set-password
NextSetPassword ==
  \/ \E e \in AuthEmails, u \in AuthUsernames, p \in RegisterPasswords : RegisterFind(e, u, p)
  \/ \E q \in InFlight : RegisterCreate(q)
  \/ \E q \in InFlight, ok \in BOOLEAN : RegisterFinish(q, ok)
  \/ \E t \in PresentedTokens : EarlierConfirmEmailFind(t)
  \/ \E q \in InFlight : EarlierConfirmEmailUpdate(q)
  \/ \E e \in PresentedEmails, ok \in BOOLEAN : EarlierRequestPasswordReset(e, ok)
  \/ \E t \in PresentedTokens, p \in NewPasswords : SetPasswordFind(t, p)
  \/ \E q \in InFlight, ok \in BOOLEAN : SetPasswordUpdate(q, ok)
  \/ Tick

SpecSetPassword == InitAuth /\ [][NextSetPassword]_vars

-----------------------------------------------------------------------------
(* Requests to the protected routes *)

Confirmed(email, username) ==
  [email |-> email, username |-> username, password |-> Hash("pw"),
   emailConfirmed |-> TRUE, confirmationToken |-> Null,
   confirmationTokenExpiry |-> Null, resetToken |-> Null, resetTokenExpiry |-> Null]

\* The seeded administrator and a confirmed member, both logged in; one
\* experience owned by client 1
InitRbac ==
  /\ users = <<Confirmed("admin@example.com", "admin"), Confirmed("a@x.com", "alice")>>
  /\ sessions = Principals
  /\ userRoles = SeedRoles /\ userGroups = {} /\ groupRoles = {}
  /\ experiences = {[id |-> 1, clientId |-> 1, name |-> "quest"]}
  /\ now = 0 /\ nextToken = 1
  /\ reqs = EmptyBag /\ last = NoResp
  /\ uses = [t \in 1..MaxTokens |-> 0]
  /\ calls = NoCall

Credentials == {Member, BadCredential}

\* The path parameters a request to the route can carry
ParamsOf(route, options) ==
  IF route = "probe" /\ options.clientParam = Null THEN {<< >>}
  ELSE IF route = "GET /collaborators" THEN {<< >>}
  ELSE Params

GrantActions(roles) ==
  \/ \E role \in roles, c \in Scopes : GrantUserRole(Member, role, c)
  \/ \E row \in userRoles : RevokeUserRole(row)
  \/ \E g \in Groups : JoinGroup(Member, g)
  \/ \E row \in userGroups : LeaveGroup(row)
  \/ \E g \in Groups, role \in roles, c \in Scopes : GrantGroupRole(g, role, c)
  \/ \E row \in groupRoles : RevokeGroupRole(row)

\* The routes of clientRoutes, collaboratorRoutes and experienceRoutes
NextRbac ==
  \/ \E route \in Routes, cred \in Credentials :
       \E param \in ParamsOf(route, RouteOptions(route)) :
         \E choice \in {"asIs", "refused", "asNull"} :
           PreValidation(route, RouteOptions(route), cred, param, choice)
  \/ GetClient
  \/ GetCollaborators
  \/ ExperienceFind
  \/ ExperienceAuthorize
  \/ ExperienceWrite
  \/ GrantActions({"Super Administrator", "Client Administrator", "Viewer"})

SpecRbac == InitRbac /\ [][NextRbac]_vars

\* The authorization gate alone, under the policies a route may declare
NextGate ==
  \/ \E options \in Policies, cred \in Credentials :
       \E param \in ParamsOf("probe", options) :
         \E choice \in {"asIs", "refused", "asNull"} :
           Probe(options, cred, param, choice)
  \/ GrantActions(RoleNames)

SpecGate == InitRbac /\ [][NextGate]_vars

\* Concurrent registrations with emails and usernames that may coincide
NextRegister ==
  \/ \E e \in Emails, u \in Usernames, p \in RegisterPasswords : RegisterFind(e, u, p)
  \/ \E q \in InFlight : RegisterCreate(q)
  \/ \E q \in InFlight, ok \in BOOLEAN : RegisterFinish(q, ok)

SpecRegister == InitAuth /\ [][NextRegister]_vars

\* The administrator prisma/seed.ts creates
SeedEmail == "admin@example.com"

-----------------------------------------------------------------------------
(* Issuing role assignments: prisma/seed.ts and POST /collaborators.  Here   *)
(* a UserRole row carries its SERIAL id, so that two rows with one triple   *)
(* are two rows.                                                            *)

\* The roles prisma/seed.ts upserts
SeededRoles ==
  {"Super Administrator", "Client Administrator", "Project Manager",
   "Developer", "Viewer", "Collaborator"}

AssignEmails == {"c@x.com"}
AssignRoles == {"Viewer", "Developer", "Owner"}
AssignClients == {Null, Some(1)}

\* A run of the seed script or a POST /collaborators between two
\* repository calls
AssignReq(op, pc, email, clientId, role, uid) ==
  [op |-> op, pc |-> pc, email |-> email, clientId |-> clientId,
   role |-> role, uid |-> uid]

UserRoleRow(userId, role, clientId) ==
  [id |-> Cardinality(userRoles) + 1, userId |-> userId, role |-> role,
   clientId |-> clientId]

\* The unique index UserRole(userId, roleId, clientId) of PostgreSQL: null
\* values are distinct, so a row with a null clientId conflicts with none
UserRoleConflict(userId, role, clientId) ==
  /\ clientId # Null
  /\ \E r \in userRoles :
       r.userId = userId /\ r.role = role /\ r.clientId = clientId

\* seed.ts main, up to the findFirst: the upsert of the administrator and
\* the lookup of its global 'Super Administrator' assignment
SeedFind ==
  /\ CanAccept
  /\ LET found == FindByEmail(SeedEmail)
         uid == IF found = {} THEN Len(users) + 1 ELSE MinOf(found)
         existingUserRole ==
           {r \in userRoles : r.userId = uid /\ r.role = "Super Administrator"
                              /\ r.clientId = Null}
     IN /\ users' = IF found = {} THEN Append(users, Confirmed(SeedEmail, "admin"))
                     ELSE users
        /\ IF existingUserRole # {} THEN UNCHANGED reqs
           ELSE Suspend(AssignReq("seed", "create", SeedEmail, Null,
                                  "Super Administrator", uid))
  /\ UNCHANGED <<repoVars, now, nextToken, sessions, last, uses, calls>>

\* seed.ts main: prisma.userRole.create
SeedCreate(q) ==
  /\ q \in InFlight /\ q.op = "seed" /\ q.pc = "create"
  /\ userRoles' = userRoles \cup {UserRoleRow(q.uid, q.role, q.clientId)}
  /\ Finish(q)
  /\ UNCHANGED <<users, userGroups, groupRoles, experiences, now, nextToken,
                 sessions, last, uses, calls>>

CollaboratorOptions == Options(Some(AdminRoles), Null, Null, Null)

\* POST /collaborators: the preValidation hooks and the findUnique of the
\* user by email
CollaboratorPost(cred, email, clientId, role) ==
  /\ calls.pc \in {"idle", "done"}
  /\ LET c == Hooks("POST /collaborators", CollaboratorOptions, cred, << >>, "asIs")
         found == FindByEmail(email)
     IN IF c.pc # "handler"
          THEN calls' = c /\ UNCHANGED reqs
        ELSE /\ CanAccept
             /\ UNCHANGED calls
             /\ Suspend(IF found = {}
                  THEN AssignReq("assign", "createUser", email, clientId, role, 0)
                  ELSE AssignReq("assign", "findRole", email, clientId, role,
                                 MinOf(found)))
  /\ UNCHANGED <<users, repoVars, now, nextToken, sessions, last, uses>>

\* CollaboratorCreateUser that stores the bcrypt hash of the temporary password
CollaboratorCreateUserHashesPassword(q, confirmed) ==
  /\ q \in InFlight /\ q.op = "assign" /\ q.pc = "createUser"
  /\ IF FindByEmail(q.email) # {} \/ FindByUsername(q.email) # {}
       THEN /\ Finish(q)
            /\ last' = Resp("assign", Some(q.email), "", Null, 0,
                            500, "Internal Server Error", FALSE)
            /\ UNCHANGED <<users, nextToken>>
       ELSE /\ nextToken <= MaxTokens
            /\ users' = Append(users,
                 [email |-> q.email, username |-> q.email,
                  password |-> Hash("temporaryPassword"),
                  emailConfirmed |-> confirmed,
                  confirmationToken |-> Null, confirmationTokenExpiry |-> Null,
                  resetToken |-> Some(nextToken),
                  resetTokenExpiry |-> Some(addHours(InvitationTokenHours))])
            /\ nextToken' = nextToken + 1
            /\ Resume(q, [q EXCEPT !.pc = "findRole", !.uid = Len(users) + 1])
            /\ UNCHANGED last
  /\ UNCHANGED <<repoVars, now, sessions, uses, calls>>

\* POST /collaborators: prisma.user.create of the invited user, with a
\* reset token; the invitation email changes nothing whether it is sent or
\* fails, as the failure is only logged; emailConfirmed is not given and
\* takes the default of the column, which may be either value
CollaboratorCreateUser(q, confirmed) ==
  /\ q \in InFlight /\ q.op = "assign" /\ q.pc = "createUser"
  /\ IF FindByEmail(q.email) # {} \/ FindByUsername(q.email) # {}
       THEN /\ Finish(q)
            /\ last' = Resp("assign", Some(q.email), "", Null, 0,
                            500, "Internal Server Error", FALSE)
            /\ UNCHANGED <<users, nextToken>>
       ELSE /\ nextToken <= MaxTokens
            /\ users' = Append(users,
                 [email |-> q.email, username |-> q.email,
                  password |-> [bcrypt |-> FALSE, of |-> "temporaryPassword"],
                  emailConfirmed |-> confirmed,
                  confirmationToken |-> Null, confirmationTokenExpiry |-> Null,
                  resetToken |-> Some(nextToken),
                  resetTokenExpiry |-> Some(addHours(InvitationTokenHours))])
            /\ nextToken' = nextToken + 1
            /\ Resume(q, [q EXCEPT !.pc = "findRole", !.uid = Len(users) + 1])
            /\ UNCHANGED last
  /\ UNCHANGED <<repoVars, now, sessions, uses, calls>>

\* POST /collaborators: the findFirst of a UserRole of the user for the
\* client, whatever its role, and the findUnique of the role by name
CollaboratorFindRole(q) ==
  /\ q \in InFlight /\ q.op = "assign" /\ q.pc = "findRole"
  /\ LET existingUserRole ==
           {r \in userRoles : r.userId = q.uid /\ r.clientId = q.clientId}
     IN IF existingUserRole # {}
          THEN /\ Finish(q)
               /\ last' = Resp("assign", Some(q.email), "", Null, q.uid, 400,
                               "User already has a role for this client", FALSE)
        ELSE IF q.role \notin SeededRoles
          THEN /\ Finish(q)
               /\ last' = Resp("assign", Some(q.email), "", Null, q.uid, 400,
                               "Invalid role name", FALSE)
        ELSE /\ Resume(q, [q EXCEPT !.pc = "createRole"])
             /\ UNCHANGED last
  /\ UNCHANGED <<users, repoVars, now, nextToken, sessions, uses, calls>>

\* POST /collaborators: prisma.userRole.create and the reply; a conflict
\* with the unique index throws, which the handler does not catch
CollaboratorCreateRole(q) ==
  /\ q \in InFlight /\ q.op = "assign" /\ q.pc = "createRole"
  /\ Finish(q)
  /\ IF UserRoleConflict(q.uid, q.role, q.clientId)
       THEN /\ last' = Resp("assign", Some(q.email), "", Null, q.uid,
                            500, "Internal Server Error", FALSE)
            /\ UNCHANGED userRoles
       ELSE /\ userRoles' = userRoles \cup {UserRoleRow(q.uid, q.role, q.clientId)}
            /\ last' = Resp("assign", Some(q.email), "", Null, q.uid,
                            200, q.role, FALSE)
  /\ UNCHANGED <<users, userGroups, groupRoles, experiences, now, nextToken,
                 sessions, uses, calls>>

NextAssign ==
  \/ SeedFind
  \/ \E q \in InFlight : SeedCreate(q)
  \/ \E p \in LoginPasswords : Login(SeedEmail, p)
  \/ \E cred \in {Admin, BadCredential}, e \in AssignEmails, c \in AssignClients,
        role \in AssignRoles : CollaboratorPost(cred, e, c, role)
  \/ \E q \in InFlight, d \in BOOLEAN : CollaboratorCreateUser(q, d)
  \/ \E q \in InFlight : CollaboratorFindRole(q)
  \/ \E q \in InFlight : CollaboratorCreateRole(q)

SpecAssign == InitAuth /\ [][NextAssign]_vars

\* The password reset of a principal that holds no token: the database as
\* prisma/seed.ts leaves it, with the administrator confirmed at creation
InitReset ==
  /\ users = <<Confirmed(SeedEmail, "admin")>>
  /\ userRoles = SeedRoles /\ userGroups = {} /\ groupRoles = {}
  /\ experiences = {}
  /\ now = 0 /\ nextToken = 1
  /\ sessions = {}
  /\ reqs = EmptyBag /\ last = NoResp
  /\ uses = [t \in 1..MaxTokens |-> 0]
  /\ calls = NoCall

ResetEmails == {Null, Some(SeedEmail), Some("b@x.com")}

NextReset ==
  \/ \E e \in ResetEmails, ok \in BOOLEAN : RequestPasswordReset(e, ok)
  \/ \E t \in PresentedTokens, p \in NewPasswords : ResetPasswordFind(t, p)
  \/ \E q \in InFlight : ResetPasswordUpdate(q)
  \/ \E p \in LoginPasswords : Login(SeedEmail, p)
  \/ Tick

SpecReset == InitReset /\ [][NextReset]_vars

-----------------------------------------------------------------------------
(* Properties of the token lifecycle, checked under SpecAuth *)

InvalidOrExpired == {"Invalid or expired token.", "Invalid or expired reset token."}

\* The step is a confirm-email or reset-password request that arrives
\* presenting token t
Presents(t) ==
  \/ ConfirmEmailFind(Some(t))
  \/ \E p \in NewPasswords \ {""} : ResetPasswordFind(Some(t), p)

\* The request that arrives in the step is answered 400 with the
\* invalid-or-expired message and goes no further
RejectedAsInvalid(t) ==
  /\ reqs' = reqs
  /\ last'.token = Some(t) /\ last'.status = 400 /\ last'.msg \in InvalidOrExpired

\* C1: of the requests that present one token value, at most one is
\* answered with success (and applies its update), whatever the
\* interleaving of their lookups and updates
AtMostOneSuccessPerToken == \A t \in 1..MaxTokens : uses[t] <= 1

\* C2: once a request has succeeded with token value t, every request that
\* arrives later presenting t is rejected with the invalid-or-expired error
\* (token values are never issued twice)
TokenIsSingleUse ==
  [][\A t \in 1..MaxTokens :
       (uses[t] >= 1 /\ Presents(t)) => RejectedAsInvalid(t)]_vars

\* A token was used with success and a later request presenting it is the
\* one answered last, with a rejection
TokenIsSingleUseWitness ==
  \E t \in 1..MaxTokens :
    /\ uses[t] >= 1
    /\ last.token = Some(t) /\ last.status = 400 /\ last.msg \in InvalidOrExpired

\* The rows that store token value t, with the expiry stored beside it
Stored(t) ==
  {[id |-> i, expiry |-> users[i].confirmationTokenExpiry] :
      i \in {j \in UserIds : users[j].confirmationToken = Some(t)}}
  \cup {[id |-> i, expiry |-> users[i].resetTokenExpiry] :
      i \in {j \in UserIds : users[j].resetToken = Some(t)}}

\* C4: a request presenting a stored token value whose expiry instant is
\* earlier than now is rejected, although the value matches
ExpiredTokenIsRejected ==
  [][\A t \in 1..MaxTokens :
       (/\ Stored(t) # {}
        /\ \A r \in Stored(t) : r.expiry # Null /\ r.expiry[1] < now
        /\ Presents(t)) => RejectedAsInvalid(t)]_vars

\* The request answered last presented a value that is still stored, with
\* an expiry earlier than now, and was rejected
ExpiredTokenIsRejectedWitness ==
  \E t \in 1..MaxTokens :
    /\ Stored(t) # {}
    /\ \A r \in Stored(t) : r.expiry # Null /\ r.expiry[1] < now
    /\ last.token = Some(t) /\ last.status = 400 /\ last.msg \in InvalidOrExpired

\* C5: at the boundary instant now = expiry the token counts as expired: a
\* request presenting it is rejected
BoundaryInstantIsExpired ==
  [][\A t \in 1..MaxTokens :
       (/\ Stored(t) # {}
        /\ \A r \in Stored(t) : r.expiry # Null /\ r.expiry[1] = now
        /\ Presents(t)) => RejectedAsInvalid(t)]_vars

\* C6: a session token exists only for principals whose email is confirmed,
\* and the login answered with a session token named an existing principal,
\* confirmed, whose stored hash is the hash of the password supplied
LoginOnlyForConfirmedAndVerified ==
  /\ \A u \in sessions : u \in UserIds /\ users[u].emailConfirmed
  /\ (last.op = "login" /\ last.status = 200) =>
       /\ last.uid \in UserIds /\ last.uid \in sessions
       /\ users[last.uid].email = last.email[1]
       /\ users[last.uid].emailConfirmed
       /\ users[last.uid].password.bcrypt
       /\ users[last.uid].password.of = last.password

\* The login answered last issued a session token
LoginOnlyForConfirmedAndVerifiedWitness ==
  /\ last.op = "login" /\ last.status = 200
  /\ last.uid \in sessions

-----------------------------------------------------------------------------
(* Properties of the authorization gate, checked under SpecGate and SpecRbac *)

\* A request to a route declaring a policy, answered by the gate (403) or by the
\* handler behind it (200)
Gated ==
  /\ calls.route = "probe" /\ calls.pc = "done"
  /\ calls.status \in {200, 403}

\* The step runs authorize: as a preValidation hook of an arriving request,
\* or inside the handler of PUT and DELETE /experiences/:id
ChecksRoles ==
  /\ calls' # calls
  /\ calls'.options # Null \/ calls.pc = "authorize2"
  /\ calls'.status \in {0, 403}
  /\ calls.pc \in {"idle", "done", "authorize2"}
  /\ UNCHANGED repoVars

\* The role assignments that reach a principal, direct or through a group
Assignments(userId) ==
  {[role |-> ur.role, clientId |-> ur.clientId] :
      ur \in {x \in userRoles : x.userId = userId}}
  \cup {[role |-> gr.role, clientId |-> gr.clientId] :
      gr \in {x \in groupRoles :
                [userId |-> userId, groupId |-> x.groupId] \in userGroups}}

\* C3: a rejected authorization check is final: PUT and DELETE
\* /experiences/:id change an experience only when the check made for the
\* experience's tenant found 'Client Administrator' or 'Super Administrator'
\* among the caller's effective roles and sent no 403
ExperienceWriteNeedsAdminRole ==
  calls.effect \in {"update", "delete"} =>
    calls.status # 403 /\ calls.roles \cap AdminRoles # {}

\* C7: a policy with required roles is accepted exactly when the effective
\* roles and the required roles intersect; holding none of them, also when
\* the list is empty, gives 403 Forbidden
AnyOfRequiredRoles ==
  (Gated /\ calls.options.roles # Null) =>
    /\ calls.status = 200 <=> calls.roles \cap calls.options.roles[1] # {}
    /\ calls.status = 403 => calls.body = Forbidden(calls.options.roles[1])

\* Accepted holding one of two required roles, not both
AnyOfRequiredRolesWitness ==
  /\ Gated /\ calls.options.roles = Some({"Viewer", "End User"})
  /\ Cardinality(calls.roles \cap {"Viewer", "End User"}) = 1
  /\ calls.status = 200

\* The permissions the static table gives to a set of roles
PermissionsOf(roles) == UNION {rolePermissions(r) : r \in roles}

\* C8: a policy with required permissions is accepted exactly when the
\* permissions of the effective roles include all of them
AllOfRequiredPermissions ==
  (Gated /\ calls.options.permissions # Null /\ calls.options.roles = Null) =>
    (calls.status = 200 <=>
       calls.options.permissions[1] \subseteq PermissionsOf(calls.roles))

\* C9: in a tenant-scoped check every role the principal holds through a
\* global assignment (tenant null), direct or through a group, is among the
\* effective roles
GlobalRolesApplyEverywhere ==
  (Gated /\ calls.scope \in {Some(c) : c \in Clients}) =>
    \A a \in Assignments(calls.cred) :
      a.clientId = Null => a.role \in calls.roles

\* A check scoped to a tenant where the principal has no scoped assignment
\* is accepted through a global role held by a group
GlobalRolesApplyEverywhereWitness ==
  /\ Gated /\ calls.scope \in {Some(c) : c \in Clients}
  /\ calls.status = 200 /\ calls.options.roles # Null
  /\ \A a \in Assignments(calls.cred) : a.clientId = Null
  /\ \A ur \in userRoles : ur.userId # calls.cred

\* C10: tenant isolation: every effective role of a check comes from an
\* assignment that is global or scoped to the tenant of the check, so a
\* principal whose administrator roles are all scoped to other tenants is
\* answered 403 by GET /clients/:id and by the routes checked without a
\* tenant
TenantIsolation ==
  [][ChecksRoles =>
       /\ \A role \in calls'.roles :
            \E a \in Assignments(calls'.cred) :
              a.role = role /\ a.clientId \in {Null, calls'.scope}
       /\ (/\ calls'.route \in {"GET /clients/:id", "GET /collaborators",
                                "PUT /experiences/:id"}
           /\ calls.pc # "authorize2"
           /\ \A a \in Assignments(calls'.cred) :
                a.role \in AdminRoles =>
                  a.clientId \notin {Null, calls'.scope})
          => calls'.status = 403]_vars

\* A 'Client Administrator' of tenant 1 alone was answered 403 by
\* GET /clients/2
TenantIsolationWitness ==
  /\ calls.route = "GET /clients/:id" /\ calls.param = <<"2">>
  /\ calls.status = 403
  /\ Assignments(calls.cred) =
       {[role |-> "Client Administrator", clientId |-> Some(1)]}

\* The roles a principal holds directly, for any tenant
DirectRoles(userId) == {ur.role : ur \in {x \in userRoles : x.userId = userId}}

\* The roles the groups of a principal hold for a tenant or globally
GroupRolesFor(userId, scope) ==
  {gr.role : gr \in {x \in groupRoles :
                       /\ [userId |-> userId, groupId |-> x.groupId] \in userGroups
                       /\ x.clientId \in {Null, scope}}}

\* C11: a role held through a group counts like a direct one: a check
\* requiring 'Client Administrator' or 'Super Administrator' answers 403
\* to a principal whose direct roles are at most 'Viewer' and whose groups
\* give no such role, and lets the principal pass once a group it belongs
\* to holds one of them for the tenant of the check or globally
GroupRoleCountsLikeDirect ==
  [][ChecksRoles =>
       /\ (/\ DirectRoles(calls'.cred) \subseteq {"Viewer"}
           /\ GroupRolesFor(calls'.cred, calls'.scope) \cap AdminRoles = {})
          => calls'.status = 403
       /\ GroupRolesFor(calls'.cred, calls'.scope) \cap AdminRoles # {}
          => calls'.status = 0]_vars

\* A principal whose only direct role is 'Viewer' passed GET /clients/:id
\* through the 'Client Administrator' role of its group
GroupRoleCountsLikeDirectWitness ==
  /\ calls.route = "GET /clients/:id" /\ calls.status = 200
  /\ DirectRoles(calls.cred) = {"Viewer"}
  /\ GroupRolesFor(calls.cred, calls.scope) = {"Client Administrator"}
  /\ calls.roles = {"Viewer", "Client Administrator"}

\* C12: for an authenticated principal with no direct assignment and no
\* group membership the effective roles are empty for every tenant of the
\* check and for none; the check is answered without an error, with 403
\* whenever the policy requires roles
NoAssignmentsNoRoles ==
  (/\ calls.route = "probe" /\ calls.pc = "done"
   /\ calls.cred \in sessions
   /\ calls.scope \in Scopes
   /\ \A ur \in userRoles : ur.userId # calls.cred
   /\ \A ug \in userGroups : ug.userId # calls.cred) =>
    /\ calls.roles = {}
    /\ calls.status = IF calls.options.roles # Null THEN 403 ELSE 200

\* A principal with no assignment and no membership was answered 403 for a
\* tenant, while a group it is no member of holds a role
NoAssignmentsNoRolesWitness ==
  /\ Gated /\ calls.cred \in sessions
  /\ calls.scope \in {Some(c) : c \in Clients}
  /\ \A ur \in userRoles : ur.userId # calls.cred
  /\ \A ug \in userGroups : ug.userId # calls.cred
  /\ groupRoles # {}
  /\ calls.roles = {} /\ calls.status = 403

\* C13: the effective roles of a check for principal p and tenant T are
\* exactly the names r such that p holds r directly with tenant T or null,
\* or a group of p holds r with tenant T or null
EffectiveRolesAreExact ==
  (Gated /\ calls.scope \in Scopes) =>
    calls.roles = {a.role : a \in {x \in Assignments(calls.cred) :
                                     x.clientId \in {Null, calls.scope}}}

\* A check found one role held directly and another held through a group
EffectiveRolesAreExactWitness ==
  /\ Gated /\ Cardinality(calls.roles) = 2
  /\ Cardinality(DirectRoles(calls.cred)) = 1
  /\ Cardinality(GroupRolesFor(calls.cred, calls.scope)) = 1
  /\ DirectRoles(calls.cred) # GroupRolesFor(calls.cred, calls.scope)

\* The roles the check of a step requires: those of the route's policy,
\* or those of the check inside the experience handlers
RequiredRoles ==
  IF calls.pc = "authorize2" THEN Some(AdminRoles) ELSE calls'.options.roles

\* C14: a check decides from the assignments stored when it runs: it
\* answers 403 exactly when the policy requires roles and none of them is
\* held, directly or through a group, for the tenant of the check or
\* globally, in the tables as they are at that step; what an earlier check
\* of the same principal found plays no part
ChecksUseCurrentAssignments ==
  [][ChecksRoles =>
       (calls'.status = 403 <=>
          /\ RequiredRoles # Null
          /\ \A a \in Assignments(calls'.cred) :
               a.clientId \in {Null, calls'.scope} => a.role \notin RequiredRoles[1])]_vars

\* PUT /experiences/:id passed its preValidation check, the role was then
\* revoked, and the check inside the handler answered 403
ChecksUseCurrentAssignmentsWitness ==
  /\ calls.route = "PUT /experiences/:id" /\ calls.pc = "write"
  /\ calls.status = 403
  /\ Assignments(calls.cred) = {}

\* C15: a request whose bearer credential fails verification is answered
\* 401 by server.authenticate and ends there: no role check runs for it and
\* its handler neither looks up nor changes anything
AuthenticationFailureIsTerminal ==
  (calls.route # "none" /\ calls.cred \notin sessions) =>
    /\ calls.pc = "done" /\ calls.status = 401
    /\ calls.body.error = "Unauthorized"
    /\ calls.roles = {} /\ calls.scope = Null
    /\ calls.found = Null /\ calls.effect = "none"

\* DELETE /experiences/1 with a credential that fails verification was
\* answered 401 and the experience is still there
AuthenticationFailureIsTerminalWitness ==
  /\ calls.route = "DELETE /experiences/:id" /\ calls.param = <<"1">>
  /\ calls.cred \notin sessions
  /\ calls.status = 401
  /\ \E e \in experiences : e.id = 1

-----------------------------------------------------------------------------
(* Properties of the password reset request and of rejected tokens *)

ResetLinkSent ==
  "If an account with that email exists, a password reset link has been sent."

\* C16: requestPasswordReset answers every email with the same status and
\* message, whether or not a principal is registered with it
SameReplyForEveryEmail ==
  (last.op = "requestPasswordReset" /\ last.email # Null) =>
    last.status = 200 /\ last.msg = ResetLinkSent

\* C17: requestPasswordReset for an email no principal is registered with
\* writes nothing (no token, no expiry, no other column) and sends no email
UnknownEmailChangesNothing ==
  [][\A e \in Emails, ok \in BOOLEAN :
       (/\ \A i \in UserIds : users[i].email # e
        /\ RequestPasswordReset(Some(e), ok)) =>
         /\ UNCHANGED <<users, repoVars, nextToken, sessions, reqs, uses>>
         /\ ~last'.mailed /\ last'.uid = 0]_vars

\* A reset was requested for an unregistered email while another principal
\* is registered
UnknownEmailChangesNothingWitness ==
  /\ last.op = "requestPasswordReset" /\ last.email # Null
  /\ \A i \in UserIds : Some(users[i].email) # last.email
  /\ users # << >>
  /\ last.status = 200 /\ ~last.mailed

\* Token value t cannot be used with the column: it was never issued, no
\* row stores it any more (consumed, or overwritten by a newer one), or the
\* rows that store it have an expiry earlier than now
Unusable(t, column, expiryColumn) ==
  \/ t >= nextToken
  \/ \A i \in UserIds : users[i][column] # Some(t)
  \/ \A i \in UserIds :
       users[i][column] = Some(t) =>
         users[i][expiryColumn] # Null /\ users[i][expiryColumn][1] < now

\* C18: whatever makes a token unusable, confirmEmail answers one and the
\* same error and so does resetPassword: the reply is the same in status,
\* message and every other part
InvalidTokensIndistinguishable ==
  [][\A t \in 1..MaxTokens :
       /\ (/\ Unusable(t, "confirmationToken", "confirmationTokenExpiry")
           /\ ConfirmEmailFind(Some(t))) =>
            /\ reqs' = reqs
            /\ last' = Resp("confirmEmail", Null, "", Some(t), 0, 400,
                            "Invalid or expired token.", FALSE)
       /\ \A p \in NewPasswords \ {""} :
            (/\ Unusable(t, "resetToken", "resetTokenExpiry")
             /\ ResetPasswordFind(Some(t), p)) =>
              /\ reqs' = reqs
              /\ last' = Resp("resetPassword", Null, "", Some(t), 0, 400,
                              "Invalid or expired reset token.", FALSE)]_vars

\* A token value that was never issued was rejected while a principal
\* holds a token
InvalidTokensIndistinguishableWitness ==
  \E t \in 1..MaxTokens :
    /\ t >= nextToken /\ nextToken > 1
    /\ last.token = Some(t) /\ last.status = 400 /\ last.msg \in InvalidOrExpired

\* C19: a confirm-email or set-password request with a missing token, a
\* missing new password, or a token that is not usable is answered 400 and
\* writes nothing and sends no email; with a missing token or password the
\* answer is the one sent before the lookup
RejectedRequestChangesNothing ==
  [][\A t \in PresentedTokens :
       /\ (/\ t = Null \/ Unusable(t[1], "confirmationToken", "confirmationTokenExpiry")
           /\ EarlierConfirmEmailFind(t)) =>
            /\ UNCHANGED <<users, repoVars, nextToken, sessions, reqs, uses>>
            /\ last'.status = 400 /\ ~last'.mailed
            /\ t = Null => last'.msg = "Token is required"
       /\ \A p \in NewPasswords :
            (/\ t = Null \/ p = "" \/ Unusable(t[1], "resetToken", "resetTokenExpiry")
             /\ SetPasswordFind(t, p)) =>
              /\ UNCHANGED <<users, repoVars, nextToken, sessions, reqs, uses>>
              /\ last'.status = 400 /\ ~last'.mailed
              /\ (t = Null \/ p = "") =>
                   last'.msg = "Token and new password are required"]_vars

\* set-password with a usable token and no new password was answered 400
\* and the token is still stored
RejectedRequestChangesNothingWitness ==
  /\ last.op = "setPassword" /\ last.status = 400
  /\ last.msg = "Token and new password are required"
  /\ last.token # Null
  /\ \E i \in UserIds :
       /\ users[i].resetToken = last.token
       /\ users[i].resetTokenExpiry[1] > now

-----------------------------------------------------------------------------
(* Consuming a token *)

\* C20: consuming a token and the change it authorizes are one write: a
\* principal's email is confirmed exactly when its confirmation token is
\* cleared, a step clears a reset token exactly when it is the update of a
\* reset-password request for that principal, which stores the hash of the
\* request's new password, and no step changes a password and leaves a
\* reset token or expiry behind
ConsumeIsAtomic ==
  /\ [](\A i \in UserIds :
          /\ users[i].emailConfirmed <=> users[i].confirmationToken = Null
          /\ users[i].confirmationToken = Null <=> users[i].confirmationTokenExpiry = Null
          /\ users[i].resetToken = Null <=> users[i].resetTokenExpiry = Null)
  /\ [][\A i \in UserIds :
          /\ (users[i].resetToken # Null /\ users'[i].resetToken = Null) =>
               \E q \in InFlight :
                 /\ q.op = "resetPassword" /\ q.pc = "update" /\ q.uid = i
                 /\ reqs' = reqs (-) SetToBag({q})
                 /\ users'[i].password = [bcrypt |-> TRUE, of |-> q.password]
                 /\ last'.op = "resetPassword" /\ last'.status = 200
          /\ users'[i].password # users[i].password =>
               users'[i].resetToken = Null /\ users'[i].resetTokenExpiry = Null]_vars

\* A reset-password request was answered with success: the new hash is
\* stored and the reset token is cleared, for a confirmed principal
ConsumeIsAtomicWitness ==
  /\ last.op = "resetPassword" /\ last.status = 200
  /\ users[last.uid].password.of = "pw2"
  /\ users[last.uid].resetToken = Null
  /\ users[last.uid].emailConfirmed

-----------------------------------------------------------------------------
(* Issuing a token over another *)

\* C21: a reset request for a principal stores the token it issues in place
\* of the one the principal held; resetPassword then accepts the stored
\* token while it has not expired and answers every issued token that is no
\* longer stored 'Invalid or expired reset token.', whatever its own expiry
IssuingOverwrites ==
  [][/\ \A ok \in BOOLEAN :
          RequestPasswordReset(Some(SeedEmail), ok) =>
            /\ users'[Admin].resetToken = Some(nextToken)
            /\ users'[Admin].resetTokenExpiry = Some(now + ResetTokenHours)
     /\ \A t \in 1..MaxTokens :
          /\ (/\ users[Admin].resetToken = Some(t)
              /\ users[Admin].resetTokenExpiry[1] > now
              /\ CanAccept
              /\ ResetPasswordFind(Some(t), "pw2")) =>
               /\ last' = last
               /\ \E q \in BagToSet(reqs') :
                    q.op = "resetPassword" /\ q.token = Some(t) /\ q.uid = Admin
          /\ (/\ t < nextToken
              /\ users[Admin].resetToken # Some(t)
              /\ ResetPasswordFind(Some(t), "pw2")) =>
               /\ reqs' = reqs
               /\ last'.status = 400
               /\ last'.msg = "Invalid or expired reset token."]_vars

\* The first of two tokens issued to the administrator was rejected while
\* the second is stored, at an instant before the first one's expiry
IssuingOverwritesWitness ==
  /\ last.op = "resetPassword" /\ last.token = Some(1) /\ last.status = 400
  /\ users[Admin].resetToken = Some(2)
  /\ now < ResetTokenHours

\* A stored token that has not expired
Active(token, expiry) == token # Null /\ NotExpired(expiry)

\* C22: no principal holds an active confirmation token and an active reset
\* token at once
AtMostOneActiveToken ==
  \A i \in UserIds :
    ~(/\ Active(users[i].confirmationToken, users[i].confirmationTokenExpiry)
      /\ Active(users[i].resetToken, users[i].resetTokenExpiry))

\* The columns of a row that belong to the confirmation token, to the reset
\* token, and to neither
ConfirmationPart(row) ==
  <<row.emailConfirmed, row.confirmationToken, row.confirmationTokenExpiry>>
ResetPart(row) == <<row.password, row.resetToken, row.resetTokenExpiry>>
IdentityPart(row) == <<row.email, row.username>>

\* C23: confirmEmail leaves the password hash and the reset token and expiry
\* of every principal as they were; requestPasswordReset and resetPassword
\* leave emailConfirmed and the confirmation token and expiry of every
\* principal as they were; none of them creates a principal, changes an
\* email or a username, or changes a role assignment, a membership or a
\* group's role
TokenInstancesAreIndependent ==
  [][/\ (\/ \E t \in PresentedTokens : ConfirmEmailFind(t)
         \/ \E q \in InFlight : ConfirmEmailUpdate(q)) =>
          /\ Len(users') = Len(users)
          /\ \A i \in UserIds :
               /\ ResetPart(users'[i]) = ResetPart(users[i])
               /\ IdentityPart(users'[i]) = IdentityPart(users[i])
          /\ UNCHANGED <<userRoles, userGroups, groupRoles>>
     /\ (\/ \E e \in PresentedEmails, ok \in BOOLEAN : RequestPasswordReset(e, ok)
         \/ \E t \in PresentedTokens, p \in NewPasswords : ResetPasswordFind(t, p)
         \/ \E q \in InFlight : ResetPasswordUpdate(q)) =>
          /\ Len(users') = Len(users)
          /\ \A i \in UserIds :
               /\ ConfirmationPart(users'[i]) = ConfirmationPart(users[i])
               /\ IdentityPart(users'[i]) = IdentityPart(users[i])
          /\ UNCHANGED <<userRoles, userGroups, groupRoles>>]_vars

\* A password was reset for a principal whose email is still unconfirmed
\* and whose confirmation token is still stored
TokenInstancesAreIndependentWitness ==
  /\ last.op = "resetPassword" /\ last.status = 200
  /\ ~users[last.uid].emailConfirmed
  /\ users[last.uid].confirmationToken # Null
  /\ users[last.uid].password = Hash("pw2")

-----------------------------------------------------------------------------
(* Scenarios and failures of the email *)

\* C24: register stores the principal unconfirmed, with the hash of its
\* password and a confirmation token; confirmEmail with that token, before
\* its expiry, is accepted and its update sets emailConfirmed and answers
\* success; login with the email and the stored password is answered
\* 'Please confirm your email before logging in' and signs nothing while
\* the principal is unconfirmed, and is answered 200 with a session token
\* once it is confirmed
RegistrationScenario ==
  [][/\ \A q \in InFlight :
          (RegisterCreate(q) /\ Len(users') = Len(users) + 1) =>
            LET row == users'[Len(users')]
            IN /\ row.email = q.email[1] /\ row.password = Hash(q.password)
               /\ ~row.emailConfirmed
               /\ row.confirmationToken = Some(nextToken)
               /\ row.confirmationTokenExpiry = Some(now + ConfirmationTokenHours)
     /\ \A t \in 1..MaxTokens :
          (/\ \E i \in UserIds :
                 /\ users[i].confirmationToken = Some(t)
                 /\ users[i].confirmationTokenExpiry[1] > now
           /\ CanAccept
           /\ ConfirmEmailFind(Some(t))) =>
            /\ last' = last
            /\ \E q \in BagToSet(reqs') :
                 /\ q.op = "confirmEmail" /\ q.token = Some(t)
                 /\ users[q.uid].confirmationToken = Some(t)
     /\ \A q \in InFlight :
          ConfirmEmailUpdate(q) =>
            /\ users'[q.uid].emailConfirmed
            /\ last'.status = 200 /\ last'.msg = "Email confirmed successfully."
     /\ \A e \in Emails, p \in LoginPasswords :
          Login(e, p) =>
            \A i \in UserIds :
              (users[i].email = e /\ users[i].password = Hash(p)) =>
                IF users[i].emailConfirmed
                  THEN last'.status = 200 /\ i \in sessions'
                  ELSE /\ last'.status = 401
                       /\ last'.msg = "Please confirm your email before logging in"
                       /\ sessions' = sessions]_vars

\* The principal confirmed its email with the token of its registration
\* and then logged in with the password it registered
RegistrationScenarioWitness ==
  /\ last.op = "login" /\ last.status = 200 /\ last.password = "pw"
  /\ last.uid \in sessions
  /\ uses[1] = 1
  /\ users[last.uid].emailConfirmed

\* C25: when the notification email of set-password fails, the request is
\* still answered with success, the hash of the new password is stored and
\* the reset token and its expiry are cleared
NotificationFailureKeepsReset ==
  [][\A q \in InFlight :
       SetPasswordUpdate(q, FALSE) =>
         /\ users'[q.uid].password = Hash(q.password)
         /\ users'[q.uid].resetToken = Null
         /\ users'[q.uid].resetTokenExpiry = Null
         /\ last'.status = 200
         /\ last'.msg = "Password has been reset successfully"
         /\ ~last'.mailed]_vars

\* set-password answered success without its notification email, and the
\* row holds the new hash and no reset token
NotificationFailureKeepsResetWitness ==
  /\ last.op = "setPassword" /\ last.status = 200 /\ ~last.mailed
  /\ users[last.uid].password = Hash("pw2")
  /\ users[last.uid].resetToken = Null

\* C26: a register whose confirmation email fails is answered 500 and
\* leaves every principal as stored, the one it created included; a reset
\* request whose email fails is answered 500 and the token it issued stays
\* stored with its expiry, and set-password accepts a stored token that has
\* not expired; no step removes a principal or changes its email, and a
\* register with the email of a stored principal is answered
\* 'User already exists'
MailFailureKeepsState ==
  [][/\ \A q \in InFlight :
          RegisterFinish(q, FALSE) =>
            /\ last'.status = 500 /\ ~last'.mailed
            /\ users' = users
            /\ q.uid \in UserIds
            /\ users[q.uid].email = q.email[1]
     /\ \A e \in Emails :
          (/\ \E i \in UserIds : users[i].email = e
           /\ EarlierRequestPasswordReset(Some(e), FALSE)) =>
            /\ last'.status = 500 /\ ~last'.mailed
            /\ \E i \in UserIds :
                 /\ users'[i].email = e
                 /\ users'[i].resetToken = Some(nextToken)
                 /\ users'[i].resetTokenExpiry = Some(now + EarlierResetTokenHours)
     /\ \A t \in 1..MaxTokens :
          (/\ \E i \in UserIds :
                 /\ users[i].resetToken = Some(t)
                 /\ users[i].resetTokenExpiry[1] > now
           /\ CanAccept
           /\ SetPasswordFind(Some(t), "pw2")) =>
            /\ last' = last
            /\ \E q \in BagToSet(reqs') : q.op = "setPassword" /\ q.token = Some(t)
     /\ Len(users') >= Len(users)
     /\ \A i \in UserIds : users'[i].email = users[i].email
     /\ \A e \in AuthEmails, u \in AuthUsernames, p \in RegisterPasswords :
          (/\ \E i \in UserIds : users[i].email = e
           /\ RegisterFind(e, u, p)) =>
            /\ last'.status = 400 /\ last'.msg = "User already exists"
            /\ users' = users]_vars

\* A register was answered 500 for the email it could not send, and the
\* principal it created is stored with its confirmation token
MailFailureKeepsStateWitness ==
  /\ last.op = "register" /\ last.status = 500
  /\ last.msg = "Failed to send confirmation email"
  /\ users[last.uid].email = last.email[1]
  /\ Active(users[last.uid].confirmationToken, users[last.uid].confirmationTokenExpiry)

-----------------------------------------------------------------------------
(* Registration *)

\* C27: a register request for the email of a stored principal is answered
\* 400 'User already exists'; it creates no principal, changes no principal
\* and no role assignment, and sends no email
DuplicateEmailIsRefused ==
  [][\A e \in Emails, u \in Usernames, p \in RegisterPasswords :
       (/\ \E i \in UserIds : users[i].email = e
        /\ RegisterFind(e, u, p)) =>
         /\ last' = Resp("register", Some(e), "", Null, 0, 400,
                         "User already exists", FALSE)
         /\ UNCHANGED <<users, repoVars, nextToken, sessions, reqs, uses>>]_vars

\* A register for the email of one of two stored principals was refused
DuplicateEmailIsRefusedWitness ==
  /\ last.op = "register" /\ last.status = 400
  /\ last.msg = "User already exists"
  /\ Len(users) = 2
  /\ \E i \in UserIds : Some(users[i].email) = last.email

\* C28: no two principals share an email and no two share a username; a
\* create whose email or username is already stored adds no principal,
\* changes none and is answered with a server error
EmailsAndUsernamesAreUnique ==
  /\ [](\A i, j \in UserIds :
          i # j => /\ users[i].email # users[j].email
                   /\ users[i].username # users[j].username)
  /\ [][\A q \in InFlight :
          (/\ \E i \in UserIds :
                 users[i].email = q.email[1] \/ users[i].username = q.username
           /\ RegisterCreate(q)) =>
            /\ users' = users
            /\ last'.op = "register" /\ last'.status = 500]_vars

\* Of two concurrent registers with different emails and one username, one
\* created its principal and the other was stopped by the index
EmailsAndUsernamesAreUniqueWitness ==
  /\ last.op = "register" /\ last.status = 500
  /\ last.msg = "Internal Server Error"
  /\ Len(users) = 1
  /\ Some(users[1].email) # last.email

-----------------------------------------------------------------------------
(* Role assignments *)

\* C29: the repository holds at most one assignment for each (principal,
\* role, tenant) triple, the null tenant included, however often the
\* assignment is issued
RoleAssignmentIsIdempotent ==
  \A r1, r2 \in userRoles :
    (r1.userId = r2.userId /\ r1.role = r2.role /\ r1.clientId = r2.clientId)
      => r1 = r2

-----------------------------------------------------------------------------
(* Login *)

\* C30: a login with an email no principal has, and a login of a confirmed
\* principal with a password other than the stored one, are both answered
\* 401 'Invalid email or password', and neither signs a session token
LoginFailuresAreAlike ==
  [][\A e \in Emails, p \in LoginPasswords :
       (/\ \/ \A i \in UserIds : users[i].email # e
           \/ \E i \in UserIds :
                /\ users[i].email = e /\ users[i].emailConfirmed
                /\ users[i].password # Hash(p)
        /\ Login(e, p)) =>
         /\ last'.status = 401
         /\ last'.msg = "Invalid email or password"
         /\ sessions' = sessions]_vars

\* A confirmed principal presented a wrong password and was answered as an
\* unknown email is
LoginFailuresAreAlikeWitness ==
  /\ last.op = "login" /\ last.status = 401
  /\ last.msg = "Invalid email or password"
  /\ last.uid \in UserIds
  /\ users[last.uid].emailConfirmed
  /\ users[last.uid].password # Hash(last.password)

-----------------------------------------------------------------------------
(* What a rejection tells *)

\* C31: the body of a 403 reply of the gate is the error text with the
\* roles the policy requires and nothing else, so it is the same for every
\* rejected caller of the policy, whatever roles are assigned to anyone
ForbiddenCarriesOnlyRequirement ==
  (calls.status = 403 /\ calls.options # Null /\ calls.options.roles # Null) =>
    calls.body = Forbidden(calls.options.roles[1])

\* A caller that holds 'Client Administrator' was rejected by a policy
\* that requires other roles
ForbiddenCarriesOnlyRequirementWitness ==
  /\ calls.status = 403
  /\ "Client Administrator" \in calls.roles
  /\ calls.options.roles # Null
  /\ "Client Administrator" \notin calls.options.roles[1]

-----------------------------------------------------------------------------
(* Consuming a token while another is issued *)

\* C32: the write of a reset-password request whose token is no longer the
\* one its principal holds leaves the token the principal holds in place,
\* and the request is not answered with success
ConsumeClearsOnlyPresentedToken ==
  [][\A q \in InFlight :
       (/\ q.op = "resetPassword" /\ q.pc = "update"
        /\ users[q.uid].resetToken # q.token
        /\ ResetPasswordUpdate(q)) =>
         /\ users'[q.uid].resetToken = users[q.uid].resetToken
         /\ users'[q.uid].password = users[q.uid].password
         /\ last'.status # 200]_vars


-----------------------------------------------------------------------------
(* POST /experiences *)

MaxExperiences == 3

\* POST /experiences: authorize({ roles, clientParam: 'clientId' })
ExperiencePostOptions == Options(Some(AdminRoles), Null, Some("clientId"), Null)

\* The route is '/', so request.params has no clientId
NoParam == << >>

\* What request.body.clientId can be: absent, or a client
BodyClientIds == {Null} \cup {Some(c) : c \in Clients}

\* POST /experiences, the handler: clientId is read from request.body;
\* 400 without it, else prisma.experience.create and 201
ExperienceCreate(clientId) ==
  /\ calls.pc = "handler" /\ calls.route = "POST /experiences"
  /\ IF clientId = Null
       THEN /\ calls' = CallReply(calls, 400, [error |-> "clientId is required", roles |-> {}])
            /\ UNCHANGED experiences
       ELSE /\ Cardinality(experiences) < MaxExperiences
            /\ experiences' = experiences \cup
                 {[id |-> Cardinality(experiences) + 1, clientId |-> clientId[1],
                   name |-> "new"]}
            /\ calls' = [CallReply(calls, 201, OkBody) EXCEPT
                           !.found = clientId, !.effect = "create"]
  /\ UNCHANGED <<authVars, userRoles, userGroups, groupRoles>>

\* Requests that create experiences while role assignments change
NextExperience ==
  \/ \E cred \in Credentials, choice \in {"refused", "asNull"} :
       PreValidation("POST /experiences", ExperiencePostOptions, cred, NoParam, choice)
  \/ \E clientId \in BodyClientIds : ExperienceCreate(clientId)
  \/ GrantActions({"Client Administrator", "Viewer"})

SpecExperience == InitRbac /\ [][NextExperience]_vars

\* C33: the tenant that is authorized is the tenant that is written: an
\* experience created by POST /experiences was checked for the tenant it is
\* stored under, and the check found 'Client Administrator' or
\* 'Super Administrator' among the caller's roles for that tenant
CreatedUnderAuthorizedTenant ==
  calls.effect = "create" =>
    /\ calls.scope = calls.found
    /\ calls.roles \cap AdminRoles # {}


\* C34: a principal whose only qualifying role is 'Client Administrator'
\* scoped to the tenant that owns an experience is accepted by
\* PUT /experiences/:id for that experience: the request is authorized
\* against the owning tenant and the update is performed
ScopedAdministratorMayUpdate ==
  (/\ calls.route = "PUT /experiences/:id" /\ calls.pc = "done"
   /\ calls.cred = Member /\ parseInt(calls.param) = Some(1)
   /\ \E e \in experiences : e.id = 1 /\ e.clientId = 1
   /\ Assignments(Member) = {[role |-> "Client Administrator", clientId |-> Some(1)]}) =>
     /\ calls.status = 200
     /\ calls.effect = "update"


-----------------------------------------------------------------------------
(* One role per tenant *)

\* C35: through POST /collaborators a user holds at most one role
\* assignment per tenant, in every interleaving of concurrent requests, also
\* when they name different roles
OneRolePerTenant ==
  \A r1 \in userRoles, r2 \in userRoles :
    (/\ r1.userId = r2.userId /\ r1.clientId = r2.clientId
     /\ r1.clientId # Null
     /\ r1.userId \in UserIds /\ users[r1.userId].email \in AssignEmails) =>
       r1 = r2


-----------------------------------------------------------------------------
(* The role of a registered principal *)

\* C36: in every reachable state, every principal created by register
\* holds a global (tenant = null) 'Collaborator' role assignment
RegisteredHoldCollaborator ==
  \A uid \in UserIds :
    [userId |-> uid, role |-> "Collaborator", clientId |-> Null] \in userRoles


-----------------------------------------------------------------------------
(* Login before the confirmation *)

\* C37: for a principal whose email is not confirmed, login answers with
\* the email-not-confirmed error whether or not the supplied password is
\* correct, and signs no token: the answer depends on the existence and the
\* confirmation state of the account only
UnconfirmedLoginIgnoresPassword ==
  [][\A e \in Emails, p \in LoginPasswords :
       (/\ Login(e, p)
        /\ FindByEmail(e) # {}
        /\ ~users[MinOf(FindByEmail(e))].emailConfirmed) =>
          /\ last'.status = 401
          /\ last'.msg = "Please confirm your email before logging in"
          /\ sessions' = sessions]_vars

UnconfirmedLoginIgnoresPasswordWitness ==
  /\ last.op = "login" /\ last.status = 401
  /\ last.msg = "Please confirm your email before logging in"
  /\ last.uid \in UserIds
  /\ ~users[last.uid].emailConfirmed
  /\ ~Compare(last.password, users[last.uid].password)


-----------------------------------------------------------------------------
(* Invited principals: collaboratorRoutes with the routes of authRoutes     *)
(* that has POST /set-password                                              *)

InviteEmails == {"c@x.com", SeedEmail}
InvitePasswords == {"temporaryPassword", "pw2"}

\* The row was created by an invitation: its username is its email
Invited(uid) == users[uid].username = users[uid].email

\* The seeded database, with the administrator logged in
InitInvite ==
  /\ users = <<Confirmed(SeedEmail, "admin")>>
  /\ userRoles = SeedRoles /\ userGroups = {} /\ groupRoles = {}
  /\ experiences = {}
  /\ sessions = {Admin}
  /\ now = 0 /\ nextToken = 1
  /\ reqs = EmptyBag /\ last = NoResp
  /\ uses = [t \in 1..MaxTokens |-> 0]
  /\ calls = NoCall

NextInvite ==
  \/ \E p \in InvitePasswords : Login("c@x.com", p)
  \/ \E e \in InviteEmails : CollaboratorPost(Admin, e, Some(1), "Viewer")
  \/ \E q \in InFlight, d \in BOOLEAN : CollaboratorCreateUser(q, d)
  \/ \E q \in InFlight : CollaboratorFindRole(q)
  \/ \E q \in InFlight : CollaboratorCreateRole(q)
  \/ EarlierRequestPasswordReset(Some("c@x.com"), TRUE)
  \/ \E t \in PresentedTokens, p \in NewPasswords : SetPasswordFind(t, p)
  \/ \E q \in InFlight : SetPasswordUpdate(q, TRUE)
  \/ Tick

SpecInvite == InitInvite /\ [][NextInvite]_vars

\* A step of POST /collaborators
InvitationStep ==
  \/ \E e \in InviteEmails : CollaboratorPost(Admin, e, Some(1), "Viewer")
  \/ \E q \in InFlight, d \in BOOLEAN : CollaboratorCreateUser(q, d)
  \/ \E q \in InFlight : CollaboratorFindRole(q)
  \/ \E q \in InFlight : CollaboratorCreateRole(q)

====
